---- MODULE Spec2Model ----
(***************************************************************************)
(* A model of jhsiao.tkutil: the bindtag helpers (subclass, add_bindtags), *)
(* Tk's bindtag event dispatch as util.py documents it, and the            *)
(* Wrapper / Scope / Bindings machinery of jhsiao.tkutil.bindings.         *)
(***************************************************************************)
EXTENDS Integers, Sequences, FiniteSets, TLC

(***************************************************************************)
(* Python values                                                           *)
(***************************************************************************)
\* Python's None, and a keyword argument that was not passed at all.
None == "<None>"
Absent == "<absent>"

\* Python truthiness of a str-or-None argument.
Truthy(x) == x \notin {None, Absent, ""}

\* list.index / tuple.index: the first position of x (1-based), 0 when the
\* code would raise ValueError.
Index(s, x) ==
    IF \E i \in 1..Len(s) : s[i] = x
    THEN CHOOSE i \in 1..Len(s) : s[i] = x /\ \A j \in 1..(i - 1) : s[j] # x
    ELSE 0

\* s[:p] + t + s[p:] for a 0-based Python position p.
Splice(s, p, t) == SubSeq(s, 1, p) \o t \o SubSeq(s, p + 1, Len(s))

(***************************************************************************)
(* Bounds                                                                  *)
(***************************************************************************)
\* longest bindtags list explored (the 4 default tags and 2 added ones)
MaxTags == 6
\* deepest chain of widget subclasses, each calling subclass() in its __init__
MaxDerived == 3
\* most Wrapper objects created
MaxWrappers == 2
\* most calls of Wrapper.bind
MaxBinds == 3
\* most functions registered on the Bindings object
MaxRegistered == 2
\* most Bindings.apply calls after the registrations
MaxApply == 2
\* most tags passed to one add_bindtags call
MaxAdd == 2
\* most callbacks bound with widget.bind(seq, func)
MaxFuncids == 3
\* longest text given to ItemSelector.select
MaxLen == 2
\* most _show callbacks bound to the toplevel's <Motion> at once
MaxShowBinds == 2
\* most characters in an EmacsText, not counting the newline every Text ends with
MaxText == 2

(***************************************************************************)
(* The widget and its tags                                                 *)
(***************************************************************************)
WidgetName == ".w"
WidgetClass == "Text"
Toplevel == "."
DefaultTags == <<WidgetName, WidgetClass, Toplevel, "all">>
SubclassTags == {"EmacsText", "EmacsEntry", "ItemEntry"}
\* what a caller passes as after= / before=
TagArgs == {WidgetName, WidgetClass, "all", "EmacsText"}

VARIABLES
    bindtags,   \* widget.bindtags()
    last,       \* the last bindtag operation: its arguments, the tags before it, what it raised
    derived,    \* tags added by subclass(widget, tag) calls without after/before, in call order
    phase,      \* "idle", "dispatch" (an event is being delivered) or "done"
    queue,      \* tags of the event being delivered that were not searched yet
    visited,    \* tags searched for the event, each with its callback's outcome
    wrappers,   \* the Wrapper objects created so far
    commands,   \* the Tcl interpreter's commands: function name -> index of the Wrapper, 0 for none
    table,      \* Tk's binding table: method -> tag -> event sequence -> script
    fired,      \* the last event delivered to a binding and the calls it made
    wlast,      \* the last Wrapper / Bindings operation and the state before it
    impl,       \* which Bindings class is in use: bindings/__init__.py or bindings/bindings.py
    bindings,   \* Bindings.bindings: method -> tag -> Decorator
    scripts,    \* Bindings.bindings['']: the functions given to the WrapperDecorator
    looked,     \* the last lookup of a decorator, by __getitem__ and by __call__
    bound,      \* widget.bind_class(tag, seq) of the root window: event sequence -> script text
    tclcmds,    \* the funcids that are Tcl commands (created by bind, removed by deletecommand)
    nfuncs,     \* how many callbacks tkinter registered so far (the next funcid)
    ulast,      \* the last bind / unbind call, the bindings before it and the call before it
    scope,      \* a Scope object: its overrides and its master
    got,        \* the last result of scope[k]
    data,       \* ItemSelector._data (lowers, raws, Linds, Rinds) and ._longest
    labels,     \* the ItemSelector's labels on the grid: TRUE when in the selected colours
    picked,     \* the last select call: val, exact and the list returned
    bars,       \* a Scrollframe's _xscroll and _yscroll: lifted, and above the canvas or not
    sf,         \* the Scrollframe: _showx, _showy, _showref and the _show callbacks bound
    slast,      \* the last Scrollframe event and the scrollbars before it
    ed,         \* an EmacsText: its text, the insert mark, '_mark', the 'sel' tag, the modified flag
    elast       \* the last EmacsText binding that ran and the selection before it

tagvars == <<bindtags, last, derived, phase, queue, visited>>
wrapvars == <<wrappers, commands, table, fired, wlast>>
regvars == <<impl, bindings, scripts, looked>>
unbindvars == <<bound, tclcmds, nfuncs, ulast>>
scopevars == <<scope, got>>
selvars == <<data, labels, picked>>
scrollvars == <<bars, sf, slast>>
emacsvars == <<ed, elast>>
othervars == <<unbindvars, scopevars, selvars, scrollvars, emacsvars>>
vars == <<bindtags, last, derived, phase, queue, visited,
          wrappers, commands, table, fired, wlast, impl, bindings, scripts, looked,
          bound, tclcmds, nfuncs, ulast, scope, got, data, labels, picked,
          bars, sf, slast, ed, elast>>

(***************************************************************************)
(* Tcl strings are sequences of characters, so that converting one is a    *)
(* computation on its characters.                                          *)
(***************************************************************************)
Digits == {"0", "1", "2", "3", "4", "5", "6", "7", "8", "9"}

DigitValue(c) ==
    CASE c = "0" -> 0 [] c = "1" -> 1 [] c = "2" -> 2 [] c = "3" -> 3 [] c = "4" -> 4
      [] c = "5" -> 5 [] c = "6" -> 6 [] c = "7" -> 7 [] c = "8" -> 8 [] c = "9" -> 9

RECURSIVE Decimal(_)
Decimal(s) == IF s = <<>> THEN 0
              ELSE 10 * Decimal(SubSeq(s, 1, Len(s) - 1)) + DigitValue(s[Len(s)])

AllDigits(s) == Len(s) > 0 /\ \A i \in 1..Len(s) : s[i] \in Digits

\* the Python values a callback receives
IntVal(n) == [kind |-> "int", n |-> n, s |-> <<>>]
StrVal(s) == [kind |-> "str", n |-> 0, s |-> s]
WidgetVal(s) == [kind |-> "widget", n |-> 0, s |-> s]

\* names tkinter can resolve with nametowidget
Widgets == { <<".">>, <<".", "b">> }

\* converter(arg): the value, or raised = TRUE when the call raises
Convert(cvt, arg) ==
    CASE cvt = "str" -> [raised |-> FALSE, value |-> StrVal(arg)]
      [] cvt \in {"int", "getint"} ->
            IF AllDigits(arg) THEN [raised |-> FALSE, value |-> IntVal(Decimal(arg))]
            ELSE IF Len(arg) > 1 /\ arg[1] = "-" /\ AllDigits(Tail(arg))
            THEN [raised |-> FALSE, value |-> IntVal(0 - Decimal(Tail(arg)))]
            ELSE [raised |-> TRUE, value |-> StrVal(arg)]
      [] cvt = "nametowidget" ->
            IF arg \in Widgets THEN [raised |-> FALSE, value |-> WidgetVal(arg)]
            ELSE [raised |-> TRUE, value |-> StrVal(arg)]
      [] OTHER -> [raised |-> TRUE, value |-> StrVal(arg)]

(***************************************************************************)
(* bindings.scopes: Scope and the Event scope                              *)
(***************************************************************************)
\* a substitution that is None
NoSub == << "<None>" >>
\* a converter given as the Python str 'widget' rather than as a callable
StrWidget == "'widget'"
\* a converter given as the name of another attribute of the master: master.getint
StrGetint == "'getint'"
\* isinstance(func, str)
IsStr(f) == f \in {StrWidget, StrGetint}
\* getattr(self.master, func)
MasterAttr(f) == IF f = StrGetint THEN "getint" ELSE "AttributeError"

Callable(f) == f \in {"int", "str", "nametowidget", "getint"}

ArgNames == {"widget", "x", "y"}

\* Event.subs, for the names the wrapped functions use
EventSubs(k) ==
    CASE k = "widget" -> [sub |-> <<"%", "W">>, func |-> "str"]
      [] k = "x" -> [sub |-> <<"%", "x">>, func |-> "int"]
      [] k = "y" -> [sub |-> <<"%", "y">>, func |-> "int"]
      [] OTHER -> [sub |-> NoSub, func |-> None]

NoOverrides == [k \in {} |-> [sub |-> NoSub, func |-> None]]

\* Scope.func
ScopeFunc(master, name, func, default) ==
    IF master # None
    THEN IF IsStr(func)
         THEN IF func = StrWidget THEN "nametowidget" ELSE MasterAttr(func)
         ELSE IF name = "widget" THEN "nametowidget"
         ELSE default
    ELSE default

ScopeGetItemNoDefault(overrides, master, k) ==
    LET o == IF k \in DOMAIN overrides THEN overrides[k] ELSE [sub |-> NoSub, func |-> None]
        d == EventSubs(k)
    IN  [sub |-> o.sub,
         func |-> IF Callable(o.func) THEN o.func ELSE ScopeFunc(master, k, o.func, d.func)]

\* Scope.__getitem__ of a scope with the given overrides and master; the
\* overriding substitutions are Python strs, which str(sub) returns as they are
ScopeGetItem(overrides, master, k) ==
    LET o == IF k \in DOMAIN overrides THEN overrides[k] ELSE [sub |-> NoSub, func |-> None]
        d == EventSubs(k)
    IN  [sub |-> IF o.sub = NoSub THEN d.sub ELSE o.sub,
         func |-> IF Callable(o.func) THEN o.func ELSE ScopeFunc(master, k, o.func, d.func)]

\* an argument of update(**overrides): a (sub, func) tuple, or a bare value
Tuple(sub, func) == [tuple |-> TRUE, sub |-> sub, func |-> func]
Bare(v) == [tuple |-> FALSE, sub |-> v, func |-> None]

\* Scope.update: the overrides of self after the call, and those of the new scope
ScopeUpdateInPlace(selfov, overrides) ==
    LET norm == [k \in DOMAIN overrides |->
                   IF overrides[k].tuple
                   THEN [sub |-> overrides[k].sub, func |-> overrides[k].func]
                   ELSE [sub |-> overrides[k].sub, func |-> None]]
        cp == [k \in DOMAIN selfov \cup DOMAIN norm |->
                 IF k \in DOMAIN norm THEN norm[k] ELSE selfov[k]]
    IN  [self |-> cp, new |-> cp]

ScopeUpdate(selfov, overrides) ==
    LET norm == [k \in DOMAIN overrides |->
                   IF overrides[k].tuple
                   THEN [sub |-> overrides[k].sub, func |-> overrides[k].func]
                   ELSE [sub |-> overrides[k].sub, func |-> None]]
        cp == [k \in DOMAIN selfov \cup DOMAIN norm |->
                 IF k \in DOMAIN norm THEN norm[k] ELSE selfov[k]]
    IN  [self |-> selfov, new |-> cp]

\* master.nametowidget('.')
RootWidget == "."

\* the (sub, func) tuples given as overrides
OverrideSubs == {NoSub, <<"%", "y">>}
OverrideFuncs == {None, "str", StrWidget, StrGetint}
\* the keyword arguments of one call: none, or one name with its override
ScopeOverrides ==
    {NoOverrides} \cup
    {k :> [sub |-> v, func |-> f] : k \in {"widget", "x"}, v \in OverrideSubs, f \in OverrideFuncs}
ScopeUpdates ==
    {k :> Tuple(v, f) : k \in {"widget", "x"}, v \in OverrideSubs, f \in OverrideFuncs}
        \cup {k :> Bare(<<".", "b">>) : k \in {"widget", "x"}}

NoGot == [k |-> "", sub |-> NoSub, func |-> None]

\* scopes.Event(overrides={}) before any Wrapper is made
InitScope ==
    /\ scope = [overrides |-> NoOverrides, master |-> None]
    /\ got = NoGot

\* Wrapper.__init__: self.scope = scope(overrides=overrides)
NewScope ==
    /\ \E ov \in ScopeOverrides : scope' = [overrides |-> ov, master |-> None]
    /\ got' = NoGot
    /\ UNCHANGED <<tagvars, wrapvars, regvars, unbindvars, selvars, scrollvars, emacsvars>>

\* Wrapper.bind: self.scope.master = master.nametowidget('.')
SetMaster ==
    /\ scope.master = None
    /\ scope' = [scope EXCEPT !.master = RootWidget]
    /\ got' = NoGot
    /\ UNCHANGED <<tagvars, wrapvars, regvars, unbindvars, selvars, scrollvars, emacsvars>>

\* Wrapper.update: the wrapper made from self.scope.update(overrides)
UpdateScope ==
    /\ \E ov \in ScopeUpdates :
         scope' = [overrides |-> ScopeUpdate(scope.overrides, ov).new, master |-> scope.master]
    /\ got' = NoGot
    /\ UNCHANGED <<tagvars, wrapvars, regvars, unbindvars, selvars, scrollvars, emacsvars>>

\* sub, func = self.scope[k]
GetItem ==
    /\ \E k \in ArgNames :
         LET r == ScopeGetItem(scope.overrides, scope.master, k) IN
         got' = [k |-> k, sub |-> r.sub, func |-> r.func]
    /\ UNCHANGED scope
    /\ UNCHANGED <<tagvars, wrapvars, regvars, unbindvars, selvars, scrollvars, emacsvars>>

(***************************************************************************)
(* bindings.Wrapper                                                        *)
(***************************************************************************)
\* the wrapped functions and argnames(func)
Funcs == {"func", "command", "stop", "clicked"}
argnames(func) ==
    CASE func = "func" -> <<"widget", "x", "y">>
      [] func = "command" -> <<>>
      [] OTHER -> <<"widget">>

\* Wrapper.name as a word of a script: str(id(func)) + func.__name__
CommandWord(func) == <<func>>

\* Wrapper.__init__
NewWrapper(func, names, overrides, master, dobreak) ==
    [func |-> func, argnames |-> names, overrides |-> overrides, master |-> master,
     dobreak |-> dobreak, converters |-> <<>>, nbind |-> 0]

\* Wrapper.__str__
Script(w) ==
    [words |-> <<CommandWord(w.func)>> \o
               [i \in 1..Len(w.argnames) |->
                   ScopeGetItem(w.overrides, w.master, w.argnames[i]).sub],
     dobreak |-> w.dobreak]

NoScript == [words |-> <<>>, dobreak |-> FALSE]

(***************************************************************************)
(* The Tcl interpreter: commands, binding table, event delivery            *)
(***************************************************************************)
Methods == {"bind_class", "tag_bind"}
BindTags == {".", "Item"}
Sequences == {"<q>", "<Button-1>"}

NoFire == [at |-> <<>>, script |-> NoScript, ev |-> <<>>, ret |-> "", raised |-> "",
           calls |-> <<>>, stopped |-> FALSE]
NoWrapperOp == [op |-> "none", w |-> 0, arg |-> <<>>, raised |-> "", prev |-> <<>>,
                prevcommands |-> <<>>, prevtable |-> <<>>]

EmptyTable == [m \in Methods |-> [t \in BindTags |-> [q \in Sequences |-> NoScript]]]

InitWrappers ==
    /\ wrappers = <<>>
    /\ commands = [f \in Funcs |-> 0]
    /\ table = EmptyTable
    /\ fired = NoFire
    /\ wlast = NoWrapperOp

\* Wrapper.bind on the wrapper at index i: the wrapper and the commands after
\* the call, and what it raised
WrapperBind(w, i, cmds) ==
    LET w1 == [w EXCEPT !.master = RootWidget, !.nbind = @ + 1] IN
    IF w.converters # <<>>
    THEN [raised |-> "Exception", wrapper |-> w1, commands |-> cmds]
    ELSE [raised |-> "",
          wrapper |-> [w1 EXCEPT !.converters =
                          [k \in 1..Len(w.argnames) |->
                              ScopeGetItem(w1.overrides, w1.master, w.argnames[k]).func]],
          commands |-> IF cmds[w.func] # 0 THEN cmds ELSE [cmds EXCEPT ![w.func] = i]]

\* Wrapper.__call__: the calls of the wrapped function it makes
WrapperCallReversed(w, args) ==
    IF Len(args) # Len(w.converters)
    THEN [raised |-> "ValueError", calls |-> <<>>]
    ELSE [raised |-> "",
          calls |-> << [func |-> w.func,
                        args |-> [i \in 1..Len(args) |->
                            Convert(w.converters[i], args[Len(args) + 1 - i]).value]] >>]

WrapperCall(w, args) ==
    IF Len(args) # Len(w.converters)
    THEN [raised |-> "ValueError", calls |-> <<>>]
    ELSE [raised |-> "",
          calls |-> << [func |-> w.func,
                        args |-> [i \in 1..Len(args) |->
                                     Convert(w.converters[i], args[i]).value]] >>]

\* Tk's %-substitution of one word of a binding script
Percent(word, ev) ==
    IF Len(word) = 2 /\ word[1] = "%"
    THEN CASE word[2] = "W" -> ev.widget
           [] word[2] = "x" -> ev.x
           [] word[2] = "y" -> ev.y
           [] OTHER -> <<"?", "?">>
    ELSE word

RunScriptBreakAlways(script, ev, ret, cmds, ws) ==
    LET words == script.words
        name == words[1][1]
        args == [i \in 1..(Len(words) - 1) |-> Percent(words[i + 1], ev)]
    IN  IF cmds[name] = 0
        THEN [raised |-> "TclError", calls |-> <<>>, stopped |-> FALSE]
        ELSE LET r == WrapperCall(ws[cmds[name]], args) IN
             [raised |-> r.raised, calls |-> r.calls,
              stopped |-> r.raised = "" /\ ret = "break"]

\* Tcl evaluating a binding script for an event; ret is what the wrapped
\* function returns
RunScript(script, ev, ret, cmds, ws) ==
    LET words == script.words
        name == words[1][1]
        args == [i \in 1..(Len(words) - 1) |-> Percent(words[i + 1], ev)]
    IN  IF cmds[name] = 0
        THEN [raised |-> "TclError", calls |-> <<>>, stopped |-> FALSE]
        ELSE LET r == WrapperCall(ws[cmds[name]], args) IN
             [raised |-> r.raised, calls |-> r.calls,
              stopped |-> script.dobreak /\ r.raised = "" /\ ret = "break"]

\* the events delivered: %x is ?? for an event type without coordinates, and
\* .m is a window tkinter did not create
Events == { [widget |-> <<".">>, x |-> <<"1", "2">>, y |-> <<"-", "3">>],
            [widget |-> <<".", "m">>, x |-> <<"?", "?">>, y |-> <<"0">>] }
Returns == {"None", "break"}

\* the calls Wrapper(func, dobreak=..., **overrides) made
WrapperArgs ==
    { [func |-> "func", dobreak |-> FALSE, overrides |-> NoOverrides],
      [func |-> "func", dobreak |-> TRUE, overrides |-> NoOverrides],
      [func |-> "func", dobreak |-> FALSE,
       overrides |-> "x" :> [sub |-> <<"%", "y">>, func |-> "str"]],
      [func |-> "command", dobreak |-> FALSE, overrides |-> NoOverrides] }
\* keyword overrides given to Wrapper.update(**overrides)
UpdateOverrides == { "widget" :> Bare(<<".", "b">>),
                     "x" :> Tuple(NoSub, "str"),
                     "y" :> Tuple(<<"7">>, None) }

\* w = Wrapper(func, dobreak=..., **overrides): names defaults to argnames(func)
CreateWrapper ==
    /\ Len(wrappers) < MaxWrappers
    /\ \E a \in WrapperArgs :
         wrappers' = Append(wrappers, NewWrapper(a.func, argnames(a.func), a.overrides,
                                                 None, a.dobreak))
    /\ wlast' = NoWrapperOp
    /\ fired' = NoFire
    /\ UNCHANGED <<commands, table>>
    /\ UNCHANGED <<tagvars, regvars, othervars>>

\* w.update(**overrides)
Update ==
    /\ Len(wrappers) < MaxWrappers
    /\ \E i \in 1..Len(wrappers), ov \in UpdateOverrides :
         LET w == wrappers[i]
             r == ScopeUpdate(w.overrides, ov)
         IN  /\ wrappers' = Append([wrappers EXCEPT ![i].overrides = r.self],
                                   NewWrapper(w.func, w.argnames, r.new, w.master, w.dobreak))
             /\ wlast' = [op |-> "update", w |-> i, arg |-> ov, raised |-> "",
                          prev |-> wrappers, prevcommands |-> commands, prevtable |-> table]
    /\ fired' = NoFire
    /\ UNCHANGED <<commands, table>>
    /\ UNCHANGED <<tagvars, regvars, othervars>>

\* how many apply calls were made since the last registration
Applies(op) == IF op.op = "apply" THEN op.w ELSE 0

\* how often bind was called so far
RECURSIVE BindCalls(_)
BindCalls(ws) == IF ws = <<>> THEN 0
                 ELSE ws[Len(ws)].nbind + BindCalls(SubSeq(ws, 1, Len(ws) - 1))

\* w.bind(master)
Bind ==
    /\ \E i \in 1..Len(wrappers) :
         LET r == WrapperBind(wrappers[i], i, commands) IN
         /\ BindCalls(wrappers) < MaxBinds
         /\ wrappers' = [wrappers EXCEPT ![i] = r.wrapper]
         /\ commands' = r.commands
         /\ wlast' = [op |-> "bind", w |-> i, arg |-> <<>>, raised |-> r.raised,
                      prev |-> wrappers, prevcommands |-> commands, prevtable |-> table]
    /\ fired' = NoFire
    /\ UNCHANGED table
    /\ UNCHANGED <<tagvars, regvars, othervars>>

\* r.bind('<q>', str(w))
BindScript ==
    /\ \E i \in 1..Len(wrappers) :
         table' = [table EXCEPT !["bind_class"][RootWidget]["<q>"] = Script(wrappers[i])]
    /\ wlast' = NoWrapperOp
    /\ fired' = NoFire
    /\ UNCHANGED <<wrappers, commands>>
    /\ UNCHANGED <<tagvars, regvars, othervars>>

\* the event <q> arrives at the root window
Fire ==
    /\ table["bind_class"][RootWidget]["<q>"] # NoScript
    /\ \E ev \in Events, ret \in Returns :
         LET script == table["bind_class"][RootWidget]["<q>"]
             r == RunScript(script, ev, ret, commands, wrappers)
         IN  fired' = [at |-> [m |-> "bind_class", t |-> RootWidget, q |-> "<q>"],
                       script |-> script, ev |-> ev, ret |-> ret, raised |-> r.raised,
                       calls |-> r.calls, stopped |-> r.stopped]
    /\ wlast' = NoWrapperOp
    /\ UNCHANGED <<wrappers, commands, table>>
    /\ UNCHANGED <<tagvars, regvars, othervars>>

(***************************************************************************)
(* bindings.Bindings, as bindings/__init__.py and as bindings/bindings.py  *)
(* define it                                                               *)
(***************************************************************************)
Impls == {"__init__", "bindings"}

\* the functions decorated in the tests
RegFuncs == {"stop", "clicked"}

\* Bindings.Decorator.__init__
NewDecorator == [seqs |-> <<>>, funcs |-> <<>>]
\* the keyword arguments kept for Wrapper(func, **kwargs): none are given
NoKwargs == [dobreak |-> FALSE, overrides |-> NoOverrides]

\* @decorator.bind(*seqs, **kwargs) above a def: in __init__.py bind appends
\* to seqs and returns the decorator, whose __call__ appends the function; in
\* bindings.py bind returns a closure that appends both
DecoratorBind(dec, seqs, kwargs) ==
    [dec EXCEPT !.seqs = Append(@, [seqs |-> seqs, kwargs |-> kwargs])]
DecoratorCall(dec, func) == [dec EXCEPT !.funcs = Append(@, func)]
DecoratorClosure(dec, seqs, kwargs, func) ==
    [seqs |-> Append(dec.seqs, [seqs |-> seqs, kwargs |-> kwargs]),
     funcs |-> Append(dec.funcs, func)]
Decorate(im, dec, seqs, kwargs, func) ==
    IF im = "__init__" THEN DecoratorCall(DecoratorBind(dec, seqs, kwargs), func)
    ELSE DecoratorClosure(dec, seqs, kwargs, func)

\* Decorator.__iter__: zip(self.seqs, self.funcs)
Zip(dec) ==
    [i \in 1..(IF Len(dec.seqs) < Len(dec.funcs) THEN Len(dec.seqs) ELSE Len(dec.funcs)) |->
        [seqs |-> dec.seqs[i].seqs, kwargs |-> dec.seqs[i].kwargs, func |-> dec.funcs[i]]]

\* a bindspec: a tag, or a (method, tag) pair
SpecStr(tag) == [kind |-> "str", method |-> Absent, tag |-> tag]
SpecTuple(method, tag) == [kind |-> "tuple", method |-> method, tag |-> tag]
\* the positional arguments of __call__ that name the same decorator
ArgsOf(b) == IF b.kind = "str" THEN <<b.tag>> ELSE <<b.method, b.tag>>

\* bindings[''], the WrapperDecorator
WrapperDecoratorKey == [raised |-> "", method |-> "", tag |-> "", seqs |-> <<>>]

\* str.startswith('<') of an event sequence; tags and methods do not start with '<'
StartsWithLt(x) == x \in Sequences

\* Bindings.__getitem__: the key of the decorator returned
BindingsGetItem(b) ==
    IF b.kind = "tuple" \/ b.tag # ""
    THEN LET method == IF b.kind = "str" THEN "bind_class" ELSE b.method IN
         [raised |-> "", method |-> IF Truthy(method) THEN method ELSE "tag_bind",
          tag |-> b.tag, seqs |-> <<>>]
    ELSE WrapperDecoratorKey

\* Bindings.__call__(*args) of bindings/bindings.py with at least one argument
BindingsCallNew(args) ==
    IF Len(args) = 1 THEN BindingsGetItem(SpecStr(args[1]))
    ELSE IF args[2] = None THEN [raised |-> "AttributeError", method |-> "", tag |-> "", seqs |-> <<>>]
    ELSE LET lt == StartsWithLt(args[2])
             method == IF lt THEN "bind_class" ELSE args[1]
         IN  [raised |-> "",
              method |-> IF Truthy(method) THEN method ELSE "tag_bind",
              tag |-> IF lt THEN args[1] ELSE args[2],
              seqs |-> IF lt THEN Tail(args) ELSE SubSeq(args, 3, Len(args))]

\* Bindings.__call__(*args) of bindings/__init__.py with at least one argument
BindingsCallInit(args) ==
    LET stop == IF \E i \in 1..Len(args) : args[i] = None \/ StartsWithLt(args[i])
                THEN CHOOSE i \in 1..Len(args) :
                        /\ args[i] = None \/ StartsWithLt(args[i])
                        /\ \A j \in 1..(i - 1) : ~(args[j] = None \/ StartsWithLt(args[j]))
                ELSE Len(args) + 1
    IN  IF stop <= Len(args) /\ args[stop] = None
        THEN [raised |-> "AttributeError", method |-> "", tag |-> "", seqs |-> <<>>]
        ELSE LET methodtag == SubSeq(args, 1, stop - 1)
                 bindseqs == SubSeq(args, stop, Len(args))
             IN  IF Len(methodtag) \notin {1, 2}
                 THEN [raised |-> "ValueError", method |-> "", tag |-> "", seqs |-> <<>>]
                 ELSE LET method == IF Len(methodtag) = 1 THEN "bind_class" ELSE methodtag[1] IN
                      [raised |-> "",
                       method |-> IF Truthy(method) THEN method ELSE "tag_bind",
                       tag |-> methodtag[Len(methodtag)],
                       seqs |-> bindseqs]

BindingsCall(im, args) ==
    IF im = "__init__" THEN BindingsCallInit(args) ELSE BindingsCallNew(args)

NoLookup == [spec |-> SpecStr(""), item |-> WrapperDecoratorKey, call |-> WrapperDecoratorKey,
             done |-> FALSE]

\* Bindings.__init__: no function registered
InitBindings ==
    /\ bindings = [m \in Methods |-> [t \in BindTags |-> NewDecorator]]
    /\ scripts = <<>>
    /\ looked = NoLookup

\* binds[spec] and binds(*spec) evaluated for the same bindspec
LookupMethods == {"bind_class", "tag_bind", "", None}
LookupSpecs == {SpecStr(t) : t \in BindTags \cup {""}}
                 \cup {SpecTuple(m, t) : m \in LookupMethods, t \in BindTags \cup {""}}

Lookup ==
    /\ \E b \in LookupSpecs :
         looked' = [spec |-> b, item |-> BindingsGetItem(b),
                    call |-> BindingsCall(impl, ArgsOf(b)), done |-> TRUE]
    /\ UNCHANGED <<impl, bindings, scripts>>
    /\ UNCHANGED <<tagvars, wrapvars, othervars>>

\* the tuples of event sequences given to bind
SeqTuples == { <<"<q>">>, <<"<q>", "<Button-1>">> }

\* how many functions were registered
RECURSIVE CountFuncs(_)
CountFuncs(keys) ==
    IF keys = {} THEN 0
    ELSE LET k == CHOOSE k \in keys : TRUE IN
         Len(bindings[k[1]][k[2]].funcs) + CountFuncs(keys \ {k})
Registered == CountFuncs(Methods \X BindTags) + Len(scripts)

\* @binds[spec].bind(*seqs) or @binds(*spec, *seqs) above def func; the
\* decorators run when the module is imported, before any widget is built
Register ==
    /\ Registered < MaxRegistered
    /\ wlast.op # "apply"
    /\ \E form \in {"getitem", "call"}, tag \in BindTags,
          method \in {Absent, "bind_class", "tag_bind", ""},
          seqs \in SeqTuples, func \in RegFuncs :
         LET b == IF method = Absent THEN SpecStr(tag) ELSE SpecTuple(method, tag)
             k == IF form = "getitem" THEN BindingsGetItem(b)
                  ELSE BindingsCall(impl, ArgsOf(b) \o seqs)
         IN  /\ k.raised = ""
             /\ form = "call" => k.seqs = seqs
             /\ bindings' = [bindings EXCEPT ![k.method][k.tag] =
                                Decorate(impl, @, seqs, NoKwargs, func)]
    /\ UNCHANGED <<impl, scripts, looked>>
    /\ UNCHANGED wrapvars
    /\ UNCHANGED <<tagvars, othervars>>

\* @binds() above def func: the function becomes a script command
RegisterScript ==
    /\ Registered < MaxRegistered
    /\ wlast.op # "apply"
    /\ \E func \in RegFuncs : scripts' = Append(scripts, func)
    /\ UNCHANGED <<impl, bindings, looked>>
    /\ UNCHANGED wrapvars
    /\ UNCHANGED <<tagvars, othervars>>

\* the binding methods a master widget has: a Canvas has tag_bind too
Masters == {"Tk", "Canvas"}
MasterMethods(master) == IF master = "Canvas" THEN {"bind_class", "tag_bind"}
                         ELSE {"bind_class"}

\* master.bind_class(tag, seq, script) / canvas.tag_bind(tag, seq, script):
\* a script given as a string becomes the binding
TkBind(tbl, m, t, q, script) == [tbl EXCEPT ![m][t][q] = script]

RECURSIVE BindSeqs(_, _, _, _, _)
BindSeqs(tbl, m, t, keyseqs, script) ==
    IF keyseqs = <<>> THEN tbl
    ELSE BindSeqs(TkBind(tbl, m, t, Head(keyseqs), script), m, t, Tail(keyseqs), script)

\* the body of apply's innermost loop for one (keyseqs, kwargs), func
ApplyEntry(st, master, m, t, e, create) ==
    LET w0 == NewWrapper(e.func, argnames(e.func), e.kwargs.overrides, None, e.kwargs.dobreak)
        b == WrapperBind(w0, Len(st.wrappers) + 1, st.commands)
        w == IF create THEN b.wrapper ELSE w0
        st1 == IF create /\ b.commands # st.commands
               THEN [st EXCEPT !.wrappers = Append(@, b.wrapper), !.commands = b.commands]
               ELSE st
    IN  IF m \in MasterMethods(master)
        THEN [st1 EXCEPT !.table = BindSeqs(@, m, t, e.seqs, Script(w))]
        ELSE st1

RECURSIVE ApplyEntries(_, _, _, _, _, _)
ApplyEntries(st, master, m, t, entries, create) ==
    IF entries = <<>> THEN st
    ELSE ApplyEntries(ApplyEntry(st, master, m, t, Head(entries), create),
                      master, m, t, Tail(entries), create)

\* (tags if tags else info): the tags apply goes through
AllTags == <<".", "Item">>
SelectedTagsAll(tags) == AllTags

SelectedTags(tags) == IF tags # <<>> THEN tags ELSE AllTags

RECURSIVE ApplyTags(_, _, _, _, _, _)
ApplyTags(st, master, info, m, tags, create) ==
    IF tags = <<>> THEN st
    ELSE ApplyTags(ApplyEntries(st, master, m, Head(tags), Zip(info[Head(tags)]), create),
                   master, info, m, Tail(tags), create)

\* the else branch: Wrapper(func, **kwargs).bind(master) for the script functions
RECURSIVE ApplyScripts(_, _)
ApplyScripts(st, funcs) ==
    IF funcs = <<>> THEN st
    ELSE LET w0 == NewWrapper(Head(funcs), argnames(Head(funcs)), NoOverrides, None, FALSE)
             b == WrapperBind(w0, Len(st.wrappers) + 1, st.commands)
         IN  ApplyScripts(IF b.commands # st.commands
                          THEN [st EXCEPT !.wrappers = Append(@, b.wrapper),
                                          !.commands = b.commands]
                          ELSE st,
                          Tail(funcs))

\* Bindings.apply(master, tags, create=create), methods left at None
BindingsApply(st, regs, scr, master, tags, create) ==
    LET s0 == ApplyScripts(st, scr)
        s1 == ApplyTags(s0, master, regs["bind_class"], "bind_class", SelectedTags(tags), create)
    IN  ApplyTags(s1, master, regs["tag_bind"], "tag_bind", SelectedTags(tags), create)

ApplyTagArgs == { <<>>, <<".">>, <<"Item">> }

\* binds.apply(master, tags), create left at its default; an application
\* applies its bindings to one master
Apply ==
    /\ Applies(wlast) < MaxApply
    /\ \E master \in Masters, tags \in ApplyTagArgs, create \in {TRUE} :
         /\ wlast.op = "apply" => master = wlast.arg.master
         /\ LET st == BindingsApply([wrappers |-> wrappers, commands |-> commands, table |-> table],
                                    bindings, scripts, master, tags, create)
            IN  /\ wrappers' = st.wrappers
                /\ commands' = st.commands
                /\ table' = st.table
                /\ wlast' = [op |-> "apply", w |-> Applies(wlast) + 1,
                             arg |-> [master |-> master, tags |-> tags, create |-> create],
                             raised |-> "", prev |-> wrappers, prevcommands |-> commands,
                             prevtable |-> table]
    /\ fired' = NoFire
    /\ UNCHANGED regvars
    /\ UNCHANGED <<tagvars, othervars>>

\* an event of sequence q arrives where tag t is searched
BindingEvent == [widget |-> <<".">>, x |-> <<"1", "2">>, y |-> <<"-", "3">>]

FireOn ==
    /\ \E m \in Methods, t \in BindTags, q \in Sequences :
         /\ table[m][t][q] # NoScript
         /\ LET r == RunScript(table[m][t][q], BindingEvent, "None", commands, wrappers) IN
            fired' = [at |-> [m |-> m, t |-> t, q |-> q], script |-> table[m][t][q],
                      ev |-> BindingEvent, ret |-> "None", raised |-> r.raised,
                      calls |-> r.calls, stopped |-> r.stopped]
    /\ UNCHANGED <<wrappers, commands, table, wlast>>
    /\ UNCHANGED regvars
    /\ UNCHANGED <<tagvars, othervars>>

(***************************************************************************)
(* util.unbind: the script text of a binding is a sequence of pieces, a    *)
(* newline or the text of one line; tkinter binds a callback as one line   *)
(* of text that names its funcid                                           *)
(***************************************************************************)
\* '\n'
NL == [kind |-> "nl", fid |-> 0]
\* 'if {"[<funcid> %# %b ... ]" == "break"} break', the line tkinter binds for a callback
CallbackLine(fid) == [kind |-> "callback", fid |-> fid]
\* 'name %W', the text of str(wrapper) for a Wrapper without dobreak: it has no '['
ScriptLine == [kind |-> "script", fid |-> 0]

\* the event sequences bound on the root window
UnbindSeqs == {"<Return>", "<q>"}
\* the funcids bind returns, numbered in the order of the bind calls
Funcids == 1..MaxFuncids

\* str.splitlines()
RECURSIVE SplitLines(_)
SplitLines(text) ==
    IF text = <<>> THEN <<>>
    ELSE IF \E i \in 1..Len(text) : text[i] = NL
    THEN LET k == CHOOSE i \in 1..Len(text) :
                     text[i] = NL /\ \A j \in 1..(i - 1) : text[j] # NL
         IN  <<SubSeq(text, 1, k - 1)>> \o SplitLines(SubSeq(text, k + 1, Len(text)))
    ELSE <<text>>

\* filter(None, info): the lines that are not empty
IsLine(line) == line # <<>>
NonEmpty(lines) == SelectSeq(lines, IsLine)

\* _FUNCID_PATTERN.search(line).group('funcid'): the word after the first '[',
\* 0 when the line has no '[' (search returns None and .group raises)
FuncidSearch(line) ==
    IF \E i \in 1..Len(line) : line[i].kind = "callback"
    THEN line[CHOOSE i \in 1..Len(line) :
                 line[i].kind = "callback" /\ \A j \in 1..(i - 1) : line[j].kind # "callback"].fid
    ELSE 0

\* '\n\n'.join(keep)
RECURSIVE JoinLines(_)
JoinLines(lines) ==
    IF lines = <<>> THEN <<>>
    ELSE IF Len(lines) = 1 THEN lines[1]
    ELSE lines[1] \o <<NL, NL>> \o JoinLines(Tail(lines))

\* the funcids argument: a str is one funcid, otherwise a sequence of them
FuncidStr(f) == [str |-> TRUE, ids |-> <<f>>]
FuncidTuple(ids) == [str |-> FALSE, ids |-> ids]
UnbindArgs == {FuncidStr(f) : f \in Funcids}
                \cup {FuncidTuple(<<>>)}
                \cup {FuncidTuple(<<f, MaxFuncids>>) : f \in Funcids}

\* funcid in oinfo: the funcid occurs in the text
Occurs(f, text) == \E i \in 1..Len(text) : text[i] = CallbackLine(f)

\* the funcids found in the lines, as a set
FoundIn(lines) == {FuncidSearch(lines[i]) : i \in 1..Len(lines)} \ {0}

unbindDropOthers(b, cmds, evseq, funcids, delete) ==
    LET info == NonEmpty(SplitLines(b[evseq]))
        targets == {funcids.ids[i] : i \in 1..Len(funcids.ids)}
        Hit(line) == FuncidSearch(line) \in targets
        Kept(line) == FuncidSearch(line) # 0 /\ ~Hit(line)
        keep == IF funcids.ids # <<>> THEN SelectSeq(info, Kept) ELSE <<>>
        todelete == IF funcids.ids # <<>> THEN FoundIn(SelectSeq(info, Hit))
                    ELSE FoundIn(info)
        b1 == [b EXCEPT ![evseq] = IF keep # <<>> THEN JoinLines(keep) \o <<NL>> ELSE <<>>]
    IN  [bound |-> b1,
         tclcmds |-> IF delete
                     THEN cmds \ {f \in todelete : \A q \in UnbindSeqs : ~Occurs(f, b1[q])}
                     ELSE cmds]

\* unbind(widget, evseq, funcids, tag=None, delete=delete) on the root window
unbind(b, cmds, evseq, funcids, delete) ==
    LET info == NonEmpty(SplitLines(b[evseq]))
        targets == {funcids.ids[i] : i \in 1..Len(funcids.ids)}
        Hit(line) == FuncidSearch(line) \in targets
        Kept(line) == ~Hit(line)
        keep == IF funcids.ids # <<>> THEN SelectSeq(info, Kept) ELSE <<>>
        todelete == IF funcids.ids # <<>> THEN FoundIn(SelectSeq(info, Hit))
                    ELSE FoundIn(info)
        b1 == [b EXCEPT ![evseq] = IF keep # <<>> THEN JoinLines(keep) \o <<NL>> ELSE <<>>]
    IN  [bound |-> b1,
         tclcmds |-> IF delete
                     THEN cmds \ {f \in todelete : \A q \in UnbindSeqs : ~Occurs(f, b1[q])}
                     ELSE cmds]

\* Tk's bind tag seq script: a script starting with '+' is appended to the
\* binding after a newline, any other script replaces the binding
TkSetBinding(old, script, add) ==
    IF add /\ old # <<>> THEN old \o <<NL>> \o script ELSE script

NoPre == [op |-> "none", seq |-> "", add |-> FALSE, fid |-> 0, text |-> <<>>]
NoUnbindOp == [op |-> "none", seq |-> "", add |-> FALSE, fid |-> 0,
               funcids |-> FuncidTuple(<<>>), delete |-> FALSE,
               prev |-> [q \in UnbindSeqs |-> <<>>], prevcmds |-> {}, pre |-> NoPre]

\* the call before this one, when it was widget.bind(seq, func, add=1)
PreOf(op) == IF op.op = "bind" /\ op.add
             THEN [op |-> op.op, seq |-> op.seq, add |-> op.add, fid |-> op.fid,
                   text |-> op.prev[op.seq]]
             ELSE NoPre

InitUnbind ==
    /\ bound = [q \in UnbindSeqs |-> <<>>]
    /\ tclcmds = {}
    /\ nfuncs = 0
    /\ ulast = NoUnbindOp

\* funcid = r.bind(seq, func) or r.bind(seq, func, add=1): tkinter registers a
\* new command and binds the callback's line
TkinterBind ==
    /\ nfuncs < MaxFuncids
    /\ \E q \in UnbindSeqs, add \in BOOLEAN :
         /\ bound' = [bound EXCEPT ![q] =
                         TkSetBinding(@, <<CallbackLine(nfuncs + 1), NL>>, add)]
         /\ ulast' = [op |-> "bind", seq |-> q, add |-> add, fid |-> nfuncs + 1,
                      funcids |-> FuncidTuple(<<>>), delete |-> FALSE,
                      prev |-> bound, prevcmds |-> tclcmds, pre |-> NoPre]
    /\ tclcmds' = tclcmds \cup {nfuncs + 1}
    /\ nfuncs' = nfuncs + 1
    /\ UNCHANGED <<tagvars, wrapvars, regvars, scopevars, selvars, scrollvars, emacsvars>>

\* r.bind(seq, str(wrapper)): a script given as a string becomes the binding
BindString ==
    /\ \E q \in UnbindSeqs :
         /\ bound' = [bound EXCEPT ![q] = TkSetBinding(@, <<ScriptLine, NL>>, FALSE)]
         /\ ulast' = [op |-> "bindstr", seq |-> q, add |-> FALSE, fid |-> 0,
                      funcids |-> FuncidTuple(<<>>), delete |-> FALSE,
                      prev |-> bound, prevcmds |-> tclcmds, pre |-> NoPre]
    /\ UNCHANGED <<tclcmds, nfuncs>>
    /\ UNCHANGED <<tagvars, wrapvars, regvars, scopevars, selvars, scrollvars, emacsvars>>

\* unbind(r, seq, funcids, delete=delete)
Unbind ==
    /\ \E q \in UnbindSeqs, funcids \in UnbindArgs, delete \in BOOLEAN :
         LET r == unbind(bound, tclcmds, q, funcids, delete) IN
         /\ bound' = r.bound
         /\ tclcmds' = r.tclcmds
         /\ ulast' = [op |-> "unbind", seq |-> q, add |-> FALSE, fid |-> 0,
                      funcids |-> funcids, delete |-> delete,
                      prev |-> bound, prevcmds |-> tclcmds, pre |-> PreOf(ulast)]
    /\ UNCHANGED nfuncs
    /\ UNCHANGED <<tagvars, wrapvars, regvars, scopevars, selvars, scrollvars, emacsvars>>

(***************************************************************************)
(* itemselector.ItemSelector: a str is a sequence of code points           *)
(***************************************************************************)
\* sys.maxunicode; the code points are 1 'A', 2 'a', 3 'b' and 4, the last one,
\* which has no case
MaxUnicode == 4
Chars == 1..MaxUnicode

\* str.lower()
LowerChar(c) == IF c = 1 THEN 2 ELSE c
Lower(str) == [i \in 1..Len(str) |-> LowerChar(str[i])]

\* s < t for two strs, and for two tuples of ints
RECURSIVE StrLess(_, _)
StrLess(str, t) ==
    IF str = <<>> THEN t # <<>>
    ELSE IF t = <<>> THEN FALSE
    ELSE IF str[1] # t[1] THEN str[1] < t[1]
    ELSE StrLess(Tail(str), Tail(t))

\* p < q for two (str, str) tuples
PairLess(p, q) == StrLess(p[1], q[1]) \/ (p[1] = q[1] /\ StrLess(p[2], q[2]))

\* sorted(...) of a set of strs or of tuples of ints
RECURSIVE SortStrs(_)
SortStrs(S) ==
    IF S = {} THEN <<>>
    ELSE LET least == CHOOSE x \in S : \A y \in S \ {x} : StrLess(x, y)
         IN  <<least>> \o SortStrs(S \ {least})

\* sorted(...) of a set of (str, str) tuples
RECURSIVE SortPairs(_)
SortPairs(S) ==
    IF S = {} THEN <<>>
    ELSE LET least == CHOOSE x \in S : \A y \in S \ {x} : PairLess(x, y)
         IN  <<least>> \o SortPairs(S \ {least})

\* bisect.bisect_left(a, x, lo, hi) and bisect.bisect_right, positions 0-based
RECURSIVE BisectLeft(_, _, _, _)
BisectLeft(a, x, lo, hi) ==
    IF lo < hi
    THEN LET mid == (lo + hi) \div 2 IN
         IF StrLess(a[mid + 1], x) THEN BisectLeft(a, x, mid + 1, hi)
         ELSE BisectLeft(a, x, lo, mid)
    ELSE lo

RECURSIVE BisectRight(_, _, _, _)
BisectRight(a, x, lo, hi) ==
    IF lo < hi
    THEN LET mid == (lo + hi) \div 2 IN
         IF StrLess(x, a[mid + 1]) THEN BisectRight(a, x, lo, mid)
         ELSE BisectRight(a, x, mid + 1, hi)
    ELSE lo

\* s * n for a one-character str
Repeat(c, n) == [i \in 1..(IF n > 0 THEN n ELSE 0) |-> c]

\* ItemSelector._next_prefix
NextPrefix(str, longest) ==
    IF str # <<>>
    THEN IF str[Len(str)] + 1 > MaxUnicode
         THEN str \o Repeat(str[Len(str)], 1 + longest - Len(str))
         ELSE [str EXCEPT ![Len(str)] = @ + 1]
    ELSE Repeat(MaxUnicode, longest + 1)

\* max((len(_) for _ in raws), default=0)
RECURSIVE MaxLength(_)
MaxLength(strs) ==
    IF strs = <<>> THEN 0
    ELSE LET rest == MaxLength(Tail(strs)) IN
         IF Len(Head(strs)) > rest THEN Len(Head(strs)) ELSE rest

PrepDataLowerOrder(choices) ==
    LET tmp == SortPairs({<<Lower(c), c>> : c \in choices})
        raws == [i \in 1..Len(tmp) |-> tmp[i][2]]
        Linds == [j \in 1..Len(raws) |-> j - 1]
    IN  [lowers |-> [i \in 1..Len(tmp) |-> tmp[i][1]], raws |-> raws,
         Linds |-> Linds, Rinds |-> Linds, longest |-> MaxLength(raws)]

\* ItemSelector._prep_choices: the new _data and _longest
PrepData(choices) ==
    LET tmp == SortPairs({<<Lower(c), c>> : c \in choices})
        raws == SortStrs(choices)
        Linds == [j \in 1..Len(raws) |->
                    (CHOOSE i \in 1..Len(tmp) : tmp[i][2] = raws[j]) - 1]
        Rinds == [i \in 1..Len(tmp) |->
                    (CHOOSE j \in 1..Len(raws) : Linds[j] = i - 1) - 1]
    IN  [lowers |-> [i \in 1..Len(tmp) |-> tmp[i][1]], raws |-> raws,
         Linds |-> Linds, Rinds |-> Rinds, longest |-> MaxLength(raws)]

\* ItemSelector._prep_choices: the labels on the grid, one per choice, each
\* configured with the selected colours
PrepLabels(choices) == [i \in 1..Cardinality(choices) |-> TRUE]

selectNoUpperBound(d, lbls, val, exact) ==
    LET nitems == Len(d.raws)
        raw == exact \/ Lower(val) # val
        txt == IF raw THEN d.raws ELSE d.lowers
        stop == nitems
        start == BisectLeft(txt, val, 0, stop)
        pairs == IF raw THEN SortStrs({<<d.Linds[i + 1], i>> : i \in start..(stop - 1)})
                 ELSE [k \in 1..(stop - start) |-> <<start + k - 1, d.Rinds[start + k]>>]
        LabelOf(i) == IF raw THEN d.Linds[i + 1] ELSE i
        off == {LabelOf(i) : i \in (0..(start - 1)) \cup (stop..(nitems - 1))}
        on == {pairs[k][1] : k \in 1..Len(pairs)}
    IN  IF nitems = 0 THEN [ret |-> <<>>, labels |-> lbls]
        ELSE [ret |-> [k \in 1..Len(pairs) |-> d.raws[pairs[k][2] + 1]],
              labels |-> [i \in 1..Len(lbls) |->
                             IF (i - 1) \in on THEN TRUE
                             ELSE IF (i - 1) \in off THEN FALSE ELSE lbls[i]]]

\* ItemSelector.select(val, exact): the list returned and the labels' colours
select(d, lbls, val, exact) ==
    LET nitems == Len(d.raws)
        raw == exact \/ Lower(val) # val
        txt == IF raw THEN d.raws ELSE d.lowers
        stop == IF exact THEN BisectRight(txt, val, 0, nitems)
                ELSE BisectLeft(txt, NextPrefix(val, d.longest), 0, nitems)
        start == BisectLeft(txt, val, 0, stop)
        pairs == IF raw THEN SortStrs({<<d.Linds[i + 1], i>> : i \in start..(stop - 1)})
                 ELSE [k \in 1..(stop - start) |-> <<start + k - 1, d.Rinds[start + k]>>]
        LabelOf(i) == IF raw THEN d.Linds[i + 1] ELSE i
        off == {LabelOf(i) : i \in (0..(start - 1)) \cup (stop..(nitems - 1))}
        on == {pairs[k][1] : k \in 1..Len(pairs)}
    IN  IF nitems = 0 THEN [ret |-> <<>>, labels |-> lbls]
        ELSE [ret |-> [k \in 1..Len(pairs) |-> d.raws[pairs[k][2] + 1]],
              labels |-> [i \in 1..Len(lbls) |->
                             IF (i - 1) \in on THEN TRUE
                             ELSE IF (i - 1) \in off THEN FALSE ELSE lbls[i]]]

\* the strs offered as choices: 'a', 'ab', 'Ab', 'b' and 'a' followed by the
\* last code point
ChoiceWords == { <<2>>, <<2, 3>>, <<1, 3>>, <<3>>, <<2, MaxUnicode>> }

\* the texts typed: every str of at most MaxLen characters
Vals == UNION {[1..n -> Chars] : n \in 0..MaxLen}

NoPick == [val |-> <<>>, exact |-> FALSE, ret |-> <<>>, done |-> FALSE]

\* ItemSelector.__init__ without choices
InitSelector ==
    /\ data = PrepData({})
    /\ labels = <<>>
    /\ picked = NoPick

\* selector.configure(choices=...)
PrepChoices ==
    /\ \E choices \in SUBSET ChoiceWords :
         /\ data' = PrepData(choices)
         /\ labels' = PrepLabels(choices)
    /\ picked' = NoPick
    /\ UNCHANGED <<tagvars, wrapvars, regvars, unbindvars, scopevars, scrollvars, emacsvars>>

\* selector.select(val, exact)
Select ==
    /\ \E val \in Vals, exact \in BOOLEAN :
         LET r == select(data, labels, val, exact) IN
         /\ labels' = r.labels
         /\ picked' = [val |-> val, exact |-> exact, ret |-> r.ret, done |-> TRUE]
    /\ UNCHANGED data
    /\ UNCHANGED <<tagvars, wrapvars, regvars, unbindvars, scopevars, scrollvars, emacsvars>>

(***************************************************************************)
(* scrollframe.Scrollframe and its two HiddenScrollbar                     *)
(***************************************************************************)
\* HiddenScrollbar.lift and HiddenScrollbar.lower: the stacking order changes
\* and lifted follows it
lift(bar) == [lifted |-> TRUE, above |-> TRUE]
lower(bar) == [lifted |-> FALSE, above |-> FALSE]

\* HiddenScrollbar.__init__: a new widget is above its older siblings
NewScrollbar == [lifted |-> FALSE, above |-> TRUE]

\* where the pointer of a <Motion> event is: inside the x scrollbar, the y
\* scrollbar, both (they overlap in the corner) or neither
Pointers == {"x", "y", "xy", "out"}

\* Scrollframe._show: the scrollbars after a <Motion> of the toplevel; needx
\* and needy say whether xscroll.get() and yscroll.get() differ from (0.0, 1.0)
_show(b, f, pointer, needx, needy) ==
    IF f.showx /\ needx /\ pointer \in {"x", "xy"} THEN [b EXCEPT !.x = lift(@)]
    ELSE IF f.showy /\ needy /\ pointer \in {"y", "xy"} THEN [b EXCEPT !.y = lift(@)]
    ELSE [x |-> IF b.x.lifted THEN lower(b.x) ELSE b.x,
          y |-> IF b.y.lifted THEN lower(b.y) ELSE b.y]

resetFirstLifted(b) ==
    IF b.x.lifted THEN [b EXCEPT !.x = lower(@)]
    ELSE IF b.y.lifted THEN [b EXCEPT !.y = lower(@)]
    ELSE b

\* reset, bound to <Leave> of the tag 'Scrollframe': the scrollbars afterwards
reset(b) ==
    [x |-> IF b.x.lifted THEN lower(b.x) ELSE b.x,
     y |-> IF b.y.lifted THEN lower(b.y) ELSE b.y]

\* Scrollframe.__init__ with the default showx and showy: both scrollbars are
\* made and then lowered below the canvas
InitScrollframe ==
    /\ bars = [x |-> lower(NewScrollbar), y |-> lower(NewScrollbar)]
    /\ sf = [showx |-> TRUE, showy |-> TRUE, showref |-> FALSE, refbound |-> FALSE,
             nshow |-> 0]
    /\ slast = [op |-> "none", pre |-> bars]

\* entered, bound to <Enter> of the canvas: one more _show callback is added
\* to the toplevel's <Motion> when a scrollbar may show
Entered ==
    /\ (sf.showx \/ sf.showy) => sf.nshow < MaxShowBinds
    /\ sf' = IF sf.showx \/ sf.showy
             THEN [sf EXCEPT !.showref = TRUE, !.refbound = TRUE, !.nshow = @ + 1]
             ELSE [sf EXCEPT !.showref = FALSE, !.refbound = FALSE]
    /\ slast' = [op |-> "entered", pre |-> bars]
    /\ UNCHANGED bars
    /\ UNCHANGED <<tagvars, wrapvars, regvars, unbindvars, scopevars, selvars, emacsvars>>

\* leave, bound to <Leave> of the canvas: the callback _showref names is
\* unbound, if it still is bound
LeaveCanvas ==
    /\ sf' = IF sf.showref /\ sf.refbound
             THEN [sf EXCEPT !.refbound = FALSE, !.nshow = @ - 1]
             ELSE sf
    /\ slast' = [op |-> "leave", pre |-> bars]
    /\ UNCHANGED bars
    /\ UNCHANGED <<tagvars, wrapvars, regvars, unbindvars, scopevars, selvars, emacsvars>>

\* <Motion> in the toplevel while _show is bound to it
Motion ==
    /\ sf.nshow > 0
    /\ \E pointer \in Pointers, needx \in BOOLEAN, needy \in BOOLEAN :
         bars' = _show(bars, sf, pointer, needx, needy)
    /\ slast' = [op |-> "_show", pre |-> bars]
    /\ UNCHANGED sf
    /\ UNCHANGED <<tagvars, wrapvars, regvars, unbindvars, scopevars, selvars, emacsvars>>

\* <Leave> of the Scrollframe: reset(e) runs with e.widget the Scrollframe
Reset ==
    /\ bars' = reset(bars)
    /\ slast' = [op |-> "reset", pre |-> bars]
    /\ UNCHANGED sf
    /\ UNCHANGED <<tagvars, wrapvars, regvars, unbindvars, scopevars, selvars, emacsvars>>

\* Scrollframe.showx(v) and Scrollframe.showy(v)
SetShow ==
    /\ \E v \in BOOLEAN :
         \/ sf' = [sf EXCEPT !.showx = v]
         \/ sf' = [sf EXCEPT !.showy = v]
    /\ slast' = [op |-> "show", pre |-> bars]
    /\ UNCHANGED bars
    /\ UNCHANGED <<tagvars, wrapvars, regvars, unbindvars, scopevars, selvars, emacsvars>>

(***************************************************************************)
(* emacsentry.EmacsText: positions are counted in characters from '1.0'    *)
(***************************************************************************)
\* the characters of a text: a word character (\w), a space and a newline
TextChars == {"w", " ", "\n"}

\* the index 'end': after the newline the text ends with
End(text) == Len(text)

\* mark_set('insert', index): Tk keeps the insert mark before the last newline
SetInsert(text, index) ==
    IF index >= End(text) THEN End(text) - 1 ELSE IF index < 0 THEN 0 ELSE index

\* 'index linestart' and 'index lineend'
LineStart(text, index) ==
    CHOOSE st \in 0..index :
        /\ st = 0 \/ text[st] = "\n"
        /\ \A q \in (st + 1)..index : text[q] # "\n"

LineEnd(text, index) ==
    CHOOSE e \in index..(End(text) - 1) :
        /\ text[e + 1] = "\n"
        /\ \A q \in index..(e - 1) : text[q + 1] # "\n"

\* 'index + 1 lines' and 'index - 1 lines': the same column of the next or
\* previous line, or that line's end when it is shorter; past the last line is
\* 'end', before the first is '1.0'
NextLine(text, index) ==
    LET e == LineEnd(text, index) IN
    IF e = End(text) - 1 THEN End(text)
    ELSE LET to == e + 1 + (index - LineStart(text, index))
             e2 == LineEnd(text, e + 1)
         IN  IF to < e2 THEN to ELSE e2

PrevLine(text, index) ==
    LET st == LineStart(text, index) IN
    IF st = 0 THEN 0
    ELSE LET to == LineStart(text, st - 1) + (index - st)
         IN  IF to < st - 1 THEN to ELSE st - 1

\* _next_word: the end of the word at the first \w at or after insert, else 'end'
_next_word(text, index) ==
    LET found == {q \in index..(End(text) - 1) : text[q + 1] = "w"} IN
    IF found = {} THEN End(text)
    ELSE LET nxtw == CHOOSE q \in found : \A o \in found : q <= o
         IN  CHOOSE r \in (nxtw + 1)..(End(text) - 1) :
                 /\ text[r + 1] # "w"
                 /\ \A q \in nxtw..(r - 1) : text[q + 1] = "w"

\* _prev_word: the start of the word at the last \w before insert, else '1.0'
_prev_word(text, index) ==
    LET found == {q \in 0..(index - 1) : text[q + 1] = "w"} IN
    IF found = {} THEN 0
    ELSE LET nxtw == CHOOSE q \in found : \A o \in found : q >= o
         IN  CHOOSE r \in 0..nxtw :
                 /\ r = 0 \/ text[r] # "w"
                 /\ \A q \in r..nxtw : text[q + 1] = "w"

\* the cursor-movement bindings and the index each one moves insert to
Moves == {"C-a", "C-e", "C-f", "C-b", "C-n", "C-p", "M-f", "M-b"}

Dst(binding, text, index) ==
    CASE binding = "C-e" -> LineEnd(text, index)
      [] binding = "C-a" -> LineStart(text, index)
      [] binding = "C-f" -> index + 1
      [] binding = "C-b" -> index - 1
      [] binding = "C-n" -> NextLine(text, index)
      [] binding = "C-p" -> PrevLine(text, index)
      [] binding = "M-f" -> _next_word(text, index)
      [] binding = "M-b" -> _prev_word(text, index)

NoMark == [set |-> FALSE, at |-> 0]

update_selectionKeepOld(e) ==
    IF ~e.mark.set THEN e
    ELSE LET from == IF e.insert < e.mark.at THEN e.insert ELSE e.mark.at
             to == IF e.insert < e.mark.at THEN e.mark.at ELSE e.insert
         IN  [e EXCEPT !.sel = @ \cup from..(to - 1)]

\* update_selection: the 'sel' tag afterwards, as the set of tagged positions
update_selection(e) ==
    IF ~e.mark.set THEN e
    ELSE LET from == IF e.insert < e.mark.at THEN e.insert ELSE e.mark.at
             to == IF e.insert < e.mark.at THEN e.mark.at ELSE e.insert
         IN  [e EXCEPT !.sel = from..(to - 1)]

\* EmacsText.__init__: an empty Text holds one newline, insert before it
InitEmacsText ==
    /\ ed = [text |-> <<"\n">>, insert |-> 0, mark |-> NoMark, sel |-> {},
             modified |-> FALSE]
    /\ elast = [op |-> "none", presel |-> {}]

\* move(dst), _cb_Alt_f and _cb_Alt_b: the eight cursor-movement bindings
Move ==
    /\ \E binding \in Moves :
         /\ ed' = update_selection(
                     [ed EXCEPT !.insert = SetInsert(ed.text, Dst(binding, ed.text, ed.insert))])
         /\ elast' = [op |-> binding, presel |-> ed.sel]
    /\ UNCHANGED <<tagvars, wrapvars, regvars, unbindvars, scopevars, selvars, scrollvars>>

\* _cb_Control_space: unset the mark when it is at insert, else set it there
ControlSpace ==
    /\ IF ed.mark.set /\ ed.mark.at = ed.insert
       THEN /\ ed' = [ed EXCEPT !.mark = NoMark]
            /\ elast' = [op |-> "C-space unset", presel |-> ed.sel]
       ELSE /\ ed' = update_selection([ed EXCEPT !.mark = [set |-> TRUE, at |-> ed.insert]])
            /\ elast' = [op |-> "C-space", presel |-> ed.sel]
    /\ UNCHANGED <<tagvars, wrapvars, regvars, unbindvars, scopevars, selvars, scrollvars>>

\* _cb_Control_y: insert('insert', clipboard), here one character: the marks
\* (right gravity) and the tagged characters at or after insert move right, the
\* new character is tagged when both its neighbours are, the text is modified
ControlY ==
    /\ Len(ed.text) <= MaxText
    /\ \E c \in TextChars :
         ed' = [text |-> SubSeq(ed.text, 1, ed.insert) \o <<c>>
                            \o SubSeq(ed.text, ed.insert + 1, Len(ed.text)),
                insert |-> ed.insert + 1,
                mark |-> IF ed.mark.set /\ ed.mark.at >= ed.insert
                         THEN [ed.mark EXCEPT !.at = @ + 1] ELSE ed.mark,
                sel |-> {q \in ed.sel : q < ed.insert}
                           \cup {q + 1 : q \in {o \in ed.sel : o >= ed.insert}}
                           \cup (IF {ed.insert - 1, ed.insert} \subseteq ed.sel
                                 THEN {ed.insert} ELSE {}),
                modified |-> TRUE]
    /\ elast' = [op |-> "C-y", presel |-> ed.sel]
    /\ UNCHANGED <<tagvars, wrapvars, regvars, unbindvars, scopevars, selvars, scrollvars>>

\* _vcb_Modified, called only while edit('modified') is set
Modified ==
    /\ ed.modified
    /\ ed' = [ed EXCEPT !.mark = NoMark, !.modified = FALSE]
    /\ elast' = [op |-> "<<Modified>>", presel |-> ed.sel]
    /\ UNCHANGED <<tagvars, wrapvars, regvars, unbindvars, scopevars, selvars, scrollvars>>

\* the selection is changed from outside the bindings (the mouse, tag_add)
ExternalSelect ==
    /\ \E from \in 0..(End(ed.text) - 1) :
         \E to \in (from + 1)..End(ed.text) :
             ed' = [ed EXCEPT !.sel = from..(to - 1)]
    /\ elast' = [op |-> "select", presel |-> ed.sel]
    /\ UNCHANGED <<tagvars, wrapvars, regvars, unbindvars, scopevars, selvars, scrollvars>>

\* _vcb_Selection: unset the mark when the selection is not mark..insert
Selection ==
    /\ LET selfirst == CHOOSE q \in ed.sel : \A o \in ed.sel : q <= o
           sellast == (CHOOSE q \in ed.sel : \A o \in ed.sel : q >= o) + 1
       IN  ed' = IF ed.mark.set /\ ed.sel # {}
                    /\ \/ (ed.mark.at # selfirst /\ ed.insert # selfirst)
                       \/ (ed.mark.at # sellast /\ ed.insert # sellast)
                 THEN [ed EXCEPT !.mark = NoMark]
                 ELSE ed
    /\ elast' = [op |-> "<<Selection>>", presel |-> ed.sel]
    /\ UNCHANGED <<tagvars, wrapvars, regvars, unbindvars, scopevars, selvars, scrollvars>>

NoOp == [op |-> "none", tags |-> <<>>, after |-> None, before |-> None,
         prev |-> <<>>, raised |-> ""]

(***************************************************************************)
(* util.subclass                                                           *)
(***************************************************************************)
\* The list subclass() hands to widget.bindtags(), or <<>> with the
\* exception when tags.index raises.
SubclassBeforeInstance(tags, tag, after, before) ==
    IF Truthy(before)
    THEN IF Index(tags, before) = 0
         THEN [raised |-> "ValueError", tags |-> tags]
         ELSE [raised |-> "", tags |-> Splice(tags, Index(tags, before) - 1, <<tag>>)]
    ELSE [raised |-> "", tags |-> Splice(tags, Index(tags, WidgetName) - 1, <<tag>>)]

SubclassBeforeClass(tags, tag, after, before) ==
    IF Truthy(before)
    THEN IF Index(tags, before) = 0
         THEN [raised |-> "ValueError", tags |-> tags]
         ELSE [raised |-> "", tags |-> Splice(tags, Index(tags, before) - 1, <<tag>>)]
    ELSE [raised |-> "", tags |-> Splice(tags, Index(tags, WidgetClass) - 1, <<tag>>)]

subclass(tags, tag, after, before) ==
    IF Truthy(before)
    THEN IF Index(tags, before) = 0
         THEN [raised |-> "ValueError", tags |-> tags]
         ELSE [raised |-> "", tags |-> Splice(tags, Index(tags, before) - 1, <<tag>>)]
    ELSE \* after defaults to str(widget), but idx never reads it
         [raised |-> "", tags |-> Splice(tags, Index(tags, WidgetName), <<tag>>)]

Subclass ==
    /\ Len(bindtags) < MaxTags
    /\ \E tag \in SubclassTags, after \in TagArgs \cup {None}, before \in TagArgs \cup {None} :
         LET r == subclass(bindtags, tag, after, before) IN
         /\ bindtags' = r.tags
         /\ last' = [op |-> "subclass", tags |-> <<tag>>, after |-> after,
                     before |-> before, prev |-> bindtags, raised |-> r.raised]
    /\ UNCHANGED <<derived, phase, queue, visited>>
    /\ UNCHANGED <<wrapvars, regvars, othervars>>

\* A widget class's __init__ calling subclass(self, cls) after its base
\* class's __init__ returned (EmacsText, EmacsEntry, ItemEntry).
SubclassInit ==
    /\ phase # "dispatch"
    /\ Len(derived) < MaxDerived
    /\ \E tag \in SubclassTags :
         LET r == subclass(bindtags, tag, None, None) IN
         /\ bindtags' = r.tags
         /\ last' = [op |-> "subclass", tags |-> <<tag>>, after |-> None,
                     before |-> None, prev |-> bindtags, raised |-> r.raised]
         /\ derived' = Append(derived, tag)
    /\ phase' = "idle"
    /\ queue' = <<>>
    /\ visited' = <<>>
    /\ UNCHANGED <<wrapvars, regvars, othervars>>

(***************************************************************************)
(* tkutil.add_bindtags                                                     *)
(***************************************************************************)
add_bindtagsNoPlusOne(curtags, tags, before, after) ==
    IF Truthy(before)
    THEN IF Index(curtags, before) = 0
         THEN [raised |-> "ValueError", tags |-> curtags]
         ELSE [raised |-> "", tags |-> Splice(curtags, Index(curtags, before) - 1, tags)]
    ELSE IF after = Absent \/ Truthy(after)
    THEN LET a == IF after = Absent THEN WidgetName ELSE after IN
         IF Index(curtags, a) = 0
         THEN [raised |-> "ValueError", tags |-> curtags]
         ELSE [raised |-> "", tags |-> Splice(curtags, Index(curtags, a) - 1, tags)]
    ELSE [raised |-> "UnboundLocalError", tags |-> curtags]

add_bindtags(curtags, tags, before, after) ==
    IF Truthy(before)
    THEN IF Index(curtags, before) = 0
         THEN [raised |-> "ValueError", tags |-> curtags]
         ELSE [raised |-> "", tags |-> Splice(curtags, Index(curtags, before) - 1, tags)]
    ELSE IF after = Absent \/ Truthy(after)
    THEN LET a == IF after = Absent THEN WidgetName ELSE after IN
         IF Index(curtags, a) = 0
         THEN [raised |-> "ValueError", tags |-> curtags]
         ELSE [raised |-> "", tags |-> Splice(curtags, Index(curtags, a), tags)]
    ELSE \* after=None (or '') was passed: position is never assigned
         [raised |-> "UnboundLocalError", tags |-> curtags]

\* the *tags tuples a caller passes
\* the tags handed to add_bindtags
AddedTags == {"EmacsEntry", "ItemEntry"}
TagTuples == UNION {[1..n -> AddedTags] : n \in 0..MaxAdd}

AddBindtags ==
    /\ \E tags \in TagTuples,
          before \in TagArgs \cup {Absent, None},
          after \in TagArgs \cup {Absent, None} :
         LET r == add_bindtags(bindtags, tags, before, after) IN
         /\ Len(bindtags) + Len(tags) <= MaxTags
         /\ bindtags' = r.tags
         /\ last' = [op |-> "add_bindtags", tags |-> tags, after |-> after,
                     before |-> before, prev |-> bindtags, raised |-> r.raised]
    /\ UNCHANGED <<derived, phase, queue, visited>>
    /\ UNCHANGED <<wrapvars, regvars, othervars>>

(***************************************************************************)
(* Tk's delivery of one event to the widget (util.py module docstring):    *)
(* the bindtags are searched in order, a callback returning 'break' ends   *)
(* the search.                                                             *)
(***************************************************************************)
Outcomes == {"unbound", "returns", "break"}

\* what is left to search after the callback of the first tag gave outcome r
RestAfter(q, r) == IF r = "break" THEN <<>> ELSE Tail(q)

FireEvent ==
    /\ phase # "dispatch"
    /\ phase' = "dispatch"
    /\ queue' = bindtags
    /\ visited' = <<>>
    /\ last' = NoOp
    /\ UNCHANGED <<bindtags, derived>>
    /\ UNCHANGED <<wrapvars, regvars, othervars>>

DispatchTag ==
    /\ phase = "dispatch"
    /\ \E r \in Outcomes :
         /\ visited' = Append(visited, [tag |-> Head(queue), outcome |-> r])
         /\ queue' = RestAfter(queue, r)
    /\ phase' = IF queue' = <<>> THEN "done" ELSE "dispatch"
    /\ UNCHANGED <<bindtags, last, derived>>
    /\ UNCHANGED <<wrapvars, regvars, othervars>>

InitState ==
    /\ InitWrappers
    /\ InitBindings
    /\ InitUnbind
    /\ InitScope
    /\ InitSelector
    /\ InitScrollframe
    /\ InitEmacsText
    /\ bindtags = DefaultTags
    /\ last = NoOp
    /\ derived = <<>>
    /\ phase = "idle"
    /\ queue = <<>>
    /\ visited = <<>>

\* jhsiao.tkutil.bindings.Bindings is the class of bindings/__init__.py
InitTags == InitState /\ impl = "__init__"

NextTags == Subclass \/ AddBindtags

SpecTags == InitTags /\ [][NextTags]_vars

NextDispatch == SubclassInit \/ FireEvent \/ DispatchTag

SpecDispatch == InitTags /\ [][NextDispatch]_vars

NextWrap == CreateWrapper \/ Update \/ Bind \/ BindScript \/ Fire

SpecWrap == InitTags /\ [][NextWrap]_vars

NextEmacs == Move \/ ControlSpace \/ ControlY \/ Modified \/ ExternalSelect \/ Selection

SpecEmacs == InitTags /\ [][NextEmacs]_vars

NextScroll == Entered \/ LeaveCanvas \/ Motion \/ Reset \/ SetShow

SpecScroll == InitTags /\ [][NextScroll]_vars

NextSelect == PrepChoices \/ Select

SpecSelect == InitTags /\ [][NextSelect]_vars

NextScope == NewScope \/ SetMaster \/ UpdateScope \/ GetItem

SpecScope == InitTags /\ [][NextScope]_vars

NextUnbind == TkinterBind \/ BindString \/ Unbind

SpecUnbind == InitTags /\ [][NextUnbind]_vars

NextLookup == Register \/ RegisterScript \/ Lookup

\* the lookups are made on the Bindings class of either file
InitLookup == InitState /\ impl \in Impls

SpecLookup == InitLookup /\ [][NextLookup]_vars

NextBindings == Register \/ RegisterScript \/ Apply \/ FireOn

SpecBindings == InitTags /\ [][NextBindings]_vars

(***************************************************************************)
(* Properties of the bindtag helpers                                       *)
(***************************************************************************)
\* new is prev with the tags t put in after its first p tags, everything
\* else kept in order
InsertedAt(prev, new, p, t) ==
    /\ Len(new) = Len(prev) + Len(t)
    /\ \A i \in 1..p : new[i] = prev[i]
    /\ \A i \in 1..Len(t) : new[p + i] = t[i]
    /\ \A i \in (p + 1)..Len(prev) : new[i + Len(t)] = prev[i]

\* p is the first position of tag x in s
FirstAt(s, p, x) == s[p] = x /\ \A j \in 1..(p - 1) : s[j] # x

\* C1: subclass(widget, tag) with neither after nor before puts tag directly
\* after the instance tag str(widget) and before the tk class tag, and keeps
\* every earlier bindtag in its previous relative order.
C1_SubclassDefault ==
    (last.op = "subclass" /\ last.after = None /\ last.before = None) =>
        /\ last.raised = ""
        /\ \E p \in 1..Len(last.prev) :
             /\ FirstAt(last.prev, p, WidgetName)
             /\ InsertedAt(last.prev, bindtags, p, last.tags)
             /\ \E c \in (p + 2)..Len(bindtags) : bindtags[c] = WidgetClass

C1_Witness ==
    /\ last.op = "subclass" /\ last.after = None /\ last.before = None
    /\ last.tags = <<"ItemEntry">>
    /\ last.prev = <<"EmacsText", WidgetName, WidgetClass, Toplevel, "all">>
    /\ bindtags = <<"EmacsText", WidgetName, "ItemEntry", WidgetClass, Toplevel, "all">>

\* C2 (as claimed): subclass(widget, tag, after=X) with X in the bindtags
\* puts tag directly after X and nowhere else.
C2_SubclassAfter ==
    (/\ last.op = "subclass" /\ last.after # None /\ last.before = None
     /\ \E p \in 1..Len(last.prev) : last.prev[p] = last.after) =>
        \E p \in 1..Len(last.prev) :
            /\ FirstAt(last.prev, p, last.after)
            /\ InsertedAt(last.prev, bindtags, p, last.tags)

\* C3: add_bindtags(widget, *tags) puts the tags, in the given order,
\* directly before the tag named by before=, else directly after the tag named
\* by after=, else directly after str(widget); the earlier bindtags keep their
\* relative order. The call succeeds whenever the named tag is a bindtag.
C3_AddBindtags ==
    last.op = "add_bindtags" =>
        LET named == IF Truthy(last.before) THEN last.before
                     ELSE IF last.after = Absent THEN WidgetName
                     ELSE last.after
            present == \E p \in 1..Len(last.prev) : last.prev[p] = named
        IN  /\ (Truthy(named) /\ present) => last.raised = ""
            /\ last.raised = "" =>
                  \E p \in 1..Len(last.prev) :
                      /\ FirstAt(last.prev, p, named)
                      /\ InsertedAt(last.prev, bindtags,
                                    IF Truthy(last.before) THEN p - 1 ELSE p,
                                    last.tags)

C3_Witness ==
    /\ last.op = "add_bindtags" /\ last.raised = ""
    /\ last.tags = <<"EmacsEntry", "ItemEntry">>
    /\ last.before = WidgetClass
    /\ last.prev = DefaultTags
    /\ bindtags = <<WidgetName, "EmacsEntry", "ItemEntry", WidgetClass, Toplevel, "all">>

(***************************************************************************)
(* Properties of the simulated subclass dispatch                           *)
(***************************************************************************)
Reverse(s) == [i \in 1..Len(s) |-> s[Len(s) + 1 - i]]

\* instance tag, most derived subclass tag, ..., least derived one, tk class,
\* toplevel, 'all'
ExpectedOrder == <<WidgetName>> \o Reverse(derived) \o <<WidgetClass, Toplevel, "all">>

\* C4: on a widget whose classes called subclass() base first, an event's
\* tags are searched instance, most derived, ..., least derived, tk class,
\* 'all', and the search ends with the first callback that returns 'break'.
C4_DispatchOrder ==
    phase = "done" =>
        /\ Len(visited) <= Len(ExpectedOrder)
        /\ \A i \in 1..Len(visited) : visited[i].tag = ExpectedOrder[i]
        /\ \A i \in 1..(Len(visited) - 1) : visited[i].outcome # "break"
        /\ Len(visited) < Len(ExpectedOrder) => visited[Len(visited)].outcome = "break"

C4_Witness ==
    /\ phase = "done"
    /\ derived = <<"EmacsText", "EmacsEntry", "ItemEntry">>
    /\ visited = << [tag |-> WidgetName, outcome |-> "unbound"],
                    [tag |-> "ItemEntry", outcome |-> "returns"],
                    [tag |-> "EmacsEntry", outcome |-> "break"] >>


(***************************************************************************)
(* Properties of Wrapper                                                   *)
(***************************************************************************)
\* the event's value for an argument name
EventValue(name, ev) ==
    CASE name = "widget" -> ev.widget [] name = "x" -> ev.x [] name = "y" -> ev.y

\* the kind of Python value the Event scope's converter makes for a name once
\* the wrapper is bound
ConvertedKind(name) == IF name = "widget" THEN "widget" ELSE "int"

\* C5 (as claimed): once Wrapper(func) is bound, every firing of a binding
\* str(wrapper) calls func exactly once, with one argument per name of func,
\* in order, each the event's value for the name converted by the scope's
\* converter (a widget object for widget, integers for x and y).
C5_WrapperCall ==
    \A i \in 1..Len(wrappers) :
        LET w == wrappers[i] IN
        (/\ fired # NoFire /\ fired.script = Script(w)
         /\ w.overrides = NoOverrides /\ w.nbind > 0) =>
            /\ Len(fired.calls) = 1
            /\ fired.calls[1].func = w.func
            /\ Len(fired.calls[1].args) = Len(w.argnames)
            /\ \A k \in 1..Len(w.argnames) :
                 LET name == w.argnames[k]
                     c == Convert(ScopeGetItem(w.overrides, w.master, name).func,
                                  EventValue(name, fired.ev))
                 IN  /\ ~c.raised
                     /\ fired.calls[1].args[k] = c.value
                     /\ fired.calls[1].args[k].kind = ConvertedKind(name)

\* C5 (amended): once Wrapper(func).bind has created the Tcl command, every
\* firing of a binding str(wrapper) calls func exactly once, with one argument
\* per name of func, in order, each the event's value for the name converted
\* by the scope's converter, or left as the unconverted string when the
\* converter raises.
C5_WrapperCallAmended ==
    \A i \in 1..Len(wrappers) :
        LET w == wrappers[i] IN
        (/\ fired # NoFire /\ fired.script = Script(w)
         /\ w.overrides = NoOverrides /\ w.nbind > 0 /\ commands[w.func] = i) =>
            /\ Len(fired.calls) = 1
            /\ fired.calls[1].func = w.func
            /\ Len(fired.calls[1].args) = Len(w.argnames)
            /\ \A k \in 1..Len(w.argnames) :
                 LET name == w.argnames[k]
                     c == Convert(ScopeGetItem(w.overrides, w.master, name).func,
                                  EventValue(name, fired.ev))
                 IN  IF c.raised
                     THEN fired.calls[1].args[k] = StrVal(EventValue(name, fired.ev))
                     ELSE /\ fired.calls[1].args[k] = c.value
                          /\ fired.calls[1].args[k].kind = ConvertedKind(name)

C5_Witness ==
    /\ Len(wrappers) = 1 /\ wrappers[1].func = "func" /\ wrappers[1].nbind = 1
    /\ wrappers[1].overrides = NoOverrides /\ commands["func"] = 1
    /\ fired.script = Script(wrappers[1])
    /\ fired.ev = [widget |-> <<".">>, x |-> <<"1", "2">>, y |-> <<"-", "3">>]
    /\ fired.ret = "None"
    /\ fired.calls = << [func |-> "func",
                         args |-> <<WidgetVal(<<".">>), IntVal(12), IntVal(0 - 3)>>] >>

\* C9: Wrapper.update(**overrides) returns a new Wrapper for the same function
\* and command name whose script has the overriding substitution for every
\* overridden name (the class default where the override is None) and the
\* original's words elsewhere; the original wrapper's scope, script and
\* converters, and every other wrapper, are left as they were.
C9_Update ==
    wlast.op = "update" =>
        LET old == wlast.prev[wlast.w]
            new == wrappers[Len(wrappers)]
            ov == wlast.arg
        IN  /\ Len(wrappers) = Len(wlast.prev) + 1
            /\ new.func = old.func
            /\ Script(new).words[1] = Script(old).words[1]
            /\ Script(new).dobreak = Script(old).dobreak
            /\ \A j \in 1..Len(wlast.prev) : wrappers[j] = wlast.prev[j]
            /\ Script(wrappers[wlast.w]) = Script(old)
            /\ \A k \in 1..Len(old.argnames) :
                 LET name == old.argnames[k] IN
                 Script(new).words[k + 1] =
                     IF name \notin DOMAIN ov THEN Script(old).words[k + 1]
                     ELSE IF ov[name].sub = NoSub THEN EventSubs(name).sub
                     ELSE ov[name].sub

C9_Witness ==
    /\ wlast.op = "update" /\ wlast.w = 1
    /\ wrappers[1].func = "func" /\ wrappers[1].nbind = 1
    /\ wlast.arg = "widget" :> Bare(<<".", "b">>)
    /\ Script(wrappers[1]).words = << <<"func">>, <<"%", "W">>, <<"%", "x">>, <<"%", "y">> >>
    /\ Script(wrappers[2]).words = << <<"func">>, <<".", "b">>, <<"%", "x">>, <<"%", "y">> >>

\* C10 (as claimed): a second Wrapper.bind on the same wrapper, whatever the
\* wrapped function, raises 'Wrapper should only be bound once' and creates no
\* Tcl command.
C10_BindOnce ==
    (wlast.op = "bind" /\ wlast.prev[wlast.w].nbind >= 1) =>
        /\ wlast.raised = "Exception"
        /\ commands = wlast.prevcommands

\* the functions registered under (m, t) with q among their sequences
RegisteredOn(m, t, q) ==
    { Zip(bindings[m][t])[i].func : i \in
        { j \in 1..Len(Zip(bindings[m][t])) :
            \E k \in 1..Len(Zip(bindings[m][t])[j].seqs) : Zip(bindings[m][t])[j].seqs[k] = q } }

\* the functions the last event called
CalledFuncs == { fired.calls[i].func : i \in 1..Len(fired.calls) }

\* C6 (as claimed): after Bindings.apply(master), an event on sequence q
\* delivered to tag t calls every function registered under (method, t) with q
\* among its sequences, whatever else was registered.
C6_ApplyBindsAll ==
    (/\ wlast.op = "apply" /\ wlast.arg.tags = <<>> /\ wlast.arg.create
     /\ fired # NoFire
     /\ fired.at.m \in MasterMethods(wlast.arg.master)) =>
        RegisteredOn(fired.at.m, fired.at.t, fired.at.q) \subseteq CalledFuncs

\* the tags the last apply went through, as a set
AppliedTags == IF wlast.arg.tags = <<>> THEN BindTags
               ELSE { wlast.arg.tags[i] : i \in 1..Len(wlast.arg.tags) }

\* C7: Bindings.apply(master, tags=T) with non-empty T leaves every binding
\* under a tag outside T as it was, and applies the registered bindings of the
\* tags in T; with tags omitted the registered bindings of all tags are
\* applied: each registered (method, tag, sequence) of a method the master has
\* is bound to the script of a function registered for it.
C7_ApplyTags ==
    wlast.op = "apply" =>
        \A m \in Methods, t \in BindTags, q \in Sequences :
            /\ t \notin AppliedTags => table[m][t][q] = wlast.prevtable[m][t][q]
            /\ (t \in AppliedTags /\ m \in MasterMethods(wlast.arg.master)
                    /\ RegisteredOn(m, t, q) # {}) =>
                  /\ table[m][t][q] # NoScript
                  /\ \E f \in RegisteredOn(m, t, q) : table[m][t][q].words[1] = CommandWord(f)

\* two tags have registered bindings, apply(master, tags=['Item']) was the
\* first apply: the binding of 'Item' is made and '.' stays unbound
C7_Witness ==
    /\ wlast.op = "apply" /\ wlast.w = 1 /\ wlast.arg.tags = <<"Item">>
    /\ RegisteredOn("bind_class", ".", "<q>") = {"stop"}
    /\ RegisteredOn("bind_class", "Item", "<Button-1>") = {"clicked"}
    /\ table["bind_class"]["Item"]["<Button-1>"].words[1] = CommandWord("clicked")
    /\ table["bind_class"]["."]["<q>"] = NoScript

\* C8 (as claimed): binds(*spec) without event sequences returns the decorator
\* binds[spec] returns, with an omitted method meaning 'bind_class' and a falsy
\* method meaning 'tag_bind'.
C8_CallIsGetItem ==
    looked.done =>
        /\ looked.call.raised = ""
        /\ looked.call.method = looked.item.method
        /\ looked.call.tag = looked.item.tag
        /\ (looked.spec.kind = "str" /\ looked.spec.tag # "") =>
               looked.call.method = "bind_class"
        /\ (looked.spec.kind = "tuple" /\ ~Truthy(looked.spec.method)) =>
               looked.call.method = "tag_bind"

\* C11: a binding script of a Wrapper made with dobreak=True, once its command
\* has run and the wrapped function has returned, stops the processing of the
\* event (the script executes break) exactly when the function returned
\* 'break'; the script of a Wrapper with dobreak=False never stops it,
\* whatever the function returned.
C11_DoBreak ==
    /\ \A i \in 1..Len(wrappers) : Script(wrappers[i]).dobreak = wrappers[i].dobreak
    /\ (fired # NoFire /\ fired.raised = "") =>
          (fired.stopped <=> (fired.script.dobreak /\ fired.ret = "break"))

\* a dobreak wrapper's script was fired, func returned 'break', processing stopped
C11_Witness ==
    /\ fired # NoFire /\ fired.raised = "" /\ Len(fired.calls) = 1
    /\ \E i \in 1..Len(wrappers) : wrappers[i].dobreak /\ fired.script = Script(wrappers[i])
    /\ fired.ret = "break" /\ fired.stopped

\* the lines of a binding's text that hold something
ContentLines(text) == NonEmpty(SplitLines(text))

\* C12: unbind(widget, evseq, funcids) with non-empty funcids removes from the
\* binding of evseq exactly the callback lines whose funcid is in funcids and
\* keeps every other line, in order; funcids that are not bound change nothing
\* and the bindings of other sequences stay as they were; unbinding the funcid
\* that the call before added with add=1 gives back the text the binding had
\* before that funcid was added.
C12_Unbind ==
    (ulast.op = "unbind" /\ ulast.funcids.ids # <<>>) =>
        LET T == {ulast.funcids.ids[i] : i \in 1..Len(ulast.funcids.ids)}
            Other(line) == ~(\E i \in 1..Len(line) :
                                line[i].kind = "callback" /\ line[i].fid \in T)
        IN  /\ ContentLines(bound[ulast.seq]) =
                   SelectSeq(ContentLines(ulast.prev[ulast.seq]), Other)
            /\ \A q \in UnbindSeqs \ {ulast.seq} : bound[q] = ulast.prev[q]
            /\ (/\ ulast.pre.op = "bind" /\ ulast.pre.seq = ulast.seq
                /\ ulast.funcids.ids = <<ulast.pre.fid>>) =>
                   bound[ulast.seq] = ulast.pre.text

\* func1 = r.bind(seq, f1); func2 = r.bind(seq, f2, add=1); unbind(r, seq, func2):
\* the binding is again the line of f1
C12_Witness ==
    /\ ulast.op = "unbind" /\ ulast.funcids = FuncidStr(2)
    /\ ulast.pre.op = "bind" /\ ulast.pre.fid = 2 /\ ulast.pre.seq = ulast.seq
    /\ ulast.pre.text = <<CallbackLine(1), NL>>
    /\ ulast.prev[ulast.seq] = <<CallbackLine(1), NL, NL, CallbackLine(2), NL>>
    /\ bound[ulast.seq] = <<CallbackLine(1), NL>>

\* the override of k in the scope, (None, None) when there is none
OverrideOf(k) == IF k \in DOMAIN scope.overrides THEN scope.overrides[k]
                 ELSE [sub |-> NoSub, func |-> None]

\* C13 (as claimed): Scope[k] returns the overriding substitution and the
\* overriding converter when they are given, falls back to the class default
\* for each that is None or not overridden, and with a master set resolves any
\* non-callable converter for 'widget' to the master's nametowidget.
C13_ScopeGetItem ==
    got.k # "" =>
        /\ got.sub = IF OverrideOf(got.k).sub # NoSub THEN OverrideOf(got.k).sub
                     ELSE EventSubs(got.k).sub
        /\ Callable(OverrideOf(got.k).func) => got.func = OverrideOf(got.k).func
        /\ (~Callable(OverrideOf(got.k).func) /\ scope.master # None /\ got.k = "widget")
               => got.func = "nametowidget"
        /\ (OverrideOf(got.k).func = None /\ ~(scope.master # None /\ got.k = "widget"))
               => got.func = EventSubs(got.k).func

\* C13 (amended): as above, except that with a master set a converter given
\* as a str resolves to the master's attribute of that name ('widget' meaning
\* nametowidget) for every k, only a converter that is None resolves to
\* nametowidget for 'widget', and without a master every non-callable
\* converter falls back to the class default.
C13_ScopeGetItemAmended ==
    got.k # "" =>
        /\ got.sub = IF OverrideOf(got.k).sub # NoSub THEN OverrideOf(got.k).sub
                     ELSE EventSubs(got.k).sub
        /\ got.func =
             IF Callable(OverrideOf(got.k).func) THEN OverrideOf(got.k).func
             ELSE IF scope.master = None THEN EventSubs(got.k).func
             ELSE IF OverrideOf(got.k).func = StrWidget THEN "nametowidget"
             ELSE IF OverrideOf(got.k).func = StrGetint THEN "getint"
             ELSE IF got.k = "widget" THEN "nametowidget"
             ELSE EventSubs(got.k).func

\* scope['widget'] with a master, the substitution overridden and the converter None
C13_Witness ==
    /\ got.k = "widget" /\ scope.master = RootWidget
    /\ "widget" \in DOMAIN scope.overrides
    /\ scope.overrides["widget"] = [sub |-> <<".", "b">>, func |-> None]
    /\ got.sub = <<".", "b">> /\ got.func = "nametowidget"


(***************************************************************************)
(* ItemSelector.select                                                     *)
(***************************************************************************)
\* str.startswith
StartsWith(str, prefix) ==
    Len(prefix) <= Len(str) /\ SubSeq(str, 1, Len(prefix)) = prefix

\* the choices the selector holds
Choices == {data.raws[i] : i \in 1..Len(data.raws)}

\* the choices that start with val, without regard to case when val is its
\* own lower()
Matches(val) ==
    {c \in Choices : StartsWith(IF Lower(val) = val THEN Lower(c) ELSE c, val)}

Returned == {picked.ret[i] : i \in 1..Len(picked.ret)}

\* C14: select(val) with exact=False returns exactly the choices that start
\* with val, each once: case is ignored when val == val.lower() and respected
\* otherwise; the empty val and a val longer than every choice included.
C14_SelectPrefix ==
    (picked.done /\ ~picked.exact) =>
        /\ Returned = Matches(picked.val)
        /\ Len(picked.ret) = Cardinality(Matches(picked.val))

\* select('a') returned 'Ab' and 'ab' and left out the choice 'b'
C14_Witness ==
    /\ picked.done /\ ~picked.exact /\ picked.val = <<2>>
    /\ <<3>> \in Choices
    /\ {<<1, 3>>, <<2, 3>>} \subseteq Returned
    /\ <<3>> \notin Returned

\* C15: select(val, exact=True) returns [val] when val is one of the choices
\* and the empty list when it is not.
C15_SelectExact ==
    (picked.done /\ picked.exact) =>
        picked.ret = IF picked.val \in Choices THEN <<picked.val>> ELSE <<>>

\* select('a', exact=True) returned ['a'] although 'Ab' and 'ab' are choices
C15_Witness ==
    /\ picked.done /\ picked.exact /\ picked.val = <<2>>
    /\ {<<1, 3>>, <<2, 3>>} \subseteq Choices
    /\ picked.ret = <<picked.val>>


(***************************************************************************)
(* Scrollframe: the pointer leaves the frame                               *)
(***************************************************************************)
Lowered(bar) == ~bar.lifted /\ ~bar.above

\* C16: after the <Leave> event of a Scrollframe both of its scrollbars are
\* lowered below the canvas with lifted == False, whatever they were before.
C16_LeaveLowers ==
    slast.op = "reset" => (Lowered(bars.x) /\ Lowered(bars.y))

\* the pointer left while both scrollbars were lifted
C16_Witness ==
    /\ slast.op = "reset"
    /\ slast.pre.x.lifted /\ slast.pre.y.lifted
    /\ Lowered(bars.x) /\ Lowered(bars.y)


(***************************************************************************)
(* EmacsText: the selection follows the mark                               *)
(***************************************************************************)
\* the positions of the characters between two indices, the smaller first
Between(i, j) == IF i < j THEN i..(j - 1) ELSE j..(i - 1)

\* C17: after a cursor-movement binding, and after a C-space that sets the
\* mark, the selection is exactly the text between the mark and insert when
\* the mark is set, and is what it was before when the mark is not set.
C17_SelectionFollowsMark ==
    (elast.op \in Moves \cup {"C-space"}) =>
        IF ed.mark.set THEN ed.sel = Between(ed.mark.at, ed.insert)
        ELSE ed.sel = elast.presel

\* M-b moved insert to before the mark and the selection, which was
\* something else, became the text from insert to the mark
C17_Witness ==
    /\ elast.op = "M-b"
    /\ ed.mark.set /\ ed.insert < ed.mark.at
    /\ elast.presel # ed.sel
    /\ elast.presel # {}
    /\ ed.sel = ed.insert..(ed.mark.at - 1)

====
